---- MODULE Spec2Model ----
(***************************************************************************)
(* Model of ambiway (src/src/main.rs): the capture-to-colour pipeline.     *)
(*                                                                         *)
(*   - VideoCaptureAsync: one producer thread per capture device that      *)
(*     publishes the latest frame into a mutex-protected slot, a stop flag *)
(*     and a join handle;                                                  *)
(*   - get_average_colors / round_rgb / average_rgb: the colour extractor; *)
(*   - calculate_regions: the geometry engine;                             *)
(*   - main: start-up, the tick loop, the dispatch to the sink and the     *)
(*     drop of the locals when main ends.                                  *)
(*                                                                         *)
(* The main thread and the producer threads interleave at every access to  *)
(* shared state (the stop flag, the mutex, the slot).  The stop flag is an *)
(* AtomicBool; it is modelled as one coherent memory cell.                 *)
(*                                                                         *)
(* Specifications: Spec (the whole program), SourceSpec / FairSourceSpec   *)
(* (one frame source and its caller), GeoSpec (calculate_regions over a    *)
(* range of configurations) and SmoothSpec (the tick loop on a constant    *)
(* picture).  Boundaries are computed in IEEE single precision, as the     *)
(* code does.                                                              *)
(***************************************************************************)
EXTENDS Integers, Sequences, FiniteSets, TLC

\* ---------------------------------------------------------------- bounds

\* Frames a device delivers before it only fails (bounds the frame ids): in
\* a run of the whole program, and in a run of one frame source on its own.
MaxFrames == 1
MaxSourceFrames == 2
\* Dispatches the sink accepts before it rejects one (bounds the tick loop).
MaxTicks == 2

\* ------------------------------------------------------------ environment

\* The monitor lists the display server may report (get_monitors_info).
Mon == [width |-> 2, height |-> 2]
MonitorLists == { <<Mon>>, <<Mon, Mon>>, <<Mon, Mon, Mon>> }

\* Mean B, G, R of the frames a device delivers (every pixel of a frame has
\* the same colour, so the mean over any rectangle is that colour).
Pixels == { <<40, 80, 200>> }

\* Raster sizes <<cols, rows>> the capture devices may deliver; fixed per run.
FrameSizes == { <<2, 2>>, <<1, 2>> }

\* brightness: f32 = 0.5, as the fraction BrightnessNum / BrightnessDen.
BrightnessNum == 1
BrightnessDen == 2

\* The configurations main is run with (main.rs hard-codes one of this
\* shape; LED counts and the strip thickness are scaled down).
Configs ==
  { [ left_led |-> <<1, 1>>, up_led |-> <<1, 2>>,
      right_led |-> <<1, 1>>, down_led |-> <<1, 1>>,
      left_indent |-> <<0, 0>>, up_indent |-> <<0, 0>>,
      right_indent |-> <<0, 0>>, down_indent |-> <<0, 0>>,
      size |-> 1, brightness |-> <<BrightnessNum, BrightnessDen>> ] }

\* let cams = [2,3]: the number of capture devices main opens.
NumCams == 2
CamIdx == 1..NumCams

\* Mat::default(): the empty raster (id 0 is no delivered frame).
EmptyMat == [id |-> 0, px |-> <<0, 0, 0>>, cols |-> 0, rows |-> 0]

VARIABLES
  cfg,          \* the configuration of this run
  mainpc,       \* where the main thread is
  outcome,      \* how main ended: "running", "err", "panic"
  monitors,     \* Vec<MonitorRes>
  region_list,  \* Vec<Vec<[i32;4]>>
  avg_colors,   \* Vec<Vec<[u8;3]>>: the retained colours of each source
  ncaps,        \* caps.len(): devices opened so far
  client,       \* the sink connection: "none", "connected", "dropped"
  results,      \* the extraction results of the current tick
  ticks,        \* dispatches accepted by the sink
  shared,       \* per device: Shared { frame, ret }
  mutex,        \* per device: who holds the Mutex<Shared>: "free", "producer"
  running,      \* per device: the AtomicBool
  handle,       \* per device: Option<JoinHandle>: "none", "some", "taken"
  ppc,          \* per device: where the producer thread is
  pret,         \* per device: the producer's local ret: "true", "false", "err"
  pmat,         \* per device: the producer's local mat
  delivered,    \* per device: frames delivered so far (the newest frame id)
  camsize,      \* the raster size <<cols, rows>> the devices deliver
  \* history variables (no effect on the program)
  lastPub,      \* per device: the pair of the most recently completed publish
  got,          \* per device: the pair last returned by read(), if any
  readsAfter,   \* per device: device reads returned after the stop flag was set
  stopped,      \* per device: stop() has returned
  dispatched,   \* the colour sequence last handed to update_leds, if any
  sendFailed,   \* an update_leds call has failed
  openFailed,   \* a VideoCaptureAsync::new has failed
  afterFail,    \* an extraction or dispatch was attempted after a failed dispatch
  rdflip        \* parity of the read() calls of a lone frame source's caller

vars == << cfg, mainpc, outcome, monitors, region_list, avg_colors, ncaps,
           client, results, ticks, shared, mutex, running, handle, ppc, pret,
           pmat, delivered, camsize, lastPub, got, readsAfter, stopped,
           dispatched, sendFailed, openFailed, afterFail, rdflip >>

mainVars == << cfg, mainpc, outcome, monitors, region_list, avg_colors, ncaps,
               client, results, ticks, dispatched, sendFailed, openFailed,
               afterFail >>

\* ------------------------------------------------------- pure functions

Min(a, b) == IF a < b THEN a ELSE b
Max(a, b) == IF a > b THEN a ELSE b

\* f32::round of the quotient n / d (d > 0): nearest integer, halves away
\* from zero.
RoundDiv(n, d) ==
  IF n >= 0 THEN (2 * n + d) \div (2 * d)
            ELSE -((2 * (-n) + d) \div (2 * d))

\* `as u8` of a float: saturating.
SatU8(x) == Max(0, Min(255, x))

\* round_rgb: scale a channel by brightness, round, cast to u8.  brightness
\* is a fraction <<num, den>> with den a power of two, and the channel means
\* are integers, so the f32 product is exact.
RoundChannel(c, brightness) ==
  SatU8(RoundDiv(c * brightness[1], brightness[2]))

round_rgb(r, g, b, brightness) ==
  << RoundChannel(r, brightness), RoundChannel(g, brightness),
     RoundChannel(b, brightness) >>

\* Mutant: the sum of the two channels taken in u8.
AverageChannelU8(a, b) == ((a + b) % 256) \div 2

\* average_rgb: per channel ((a as u16 + b as u16) / 2) as u8.
AverageChannel(a, b) == (((a + b) % 65536) \div 2) % 256

\* Mutant: the new colour is emitted as it is.
average_rgb_latest(rgb1, rgb2) == rgb2

average_rgb(rgb1, rgb2) ==
  << AverageChannel(rgb1[1], rgb2[1]),
     AverageChannel(rgb1[2], rgb2[2]),
     AverageChannel(rgb1[3], rgb2[3]) >>

\* ---- f32 arithmetic on positive values, as <<m, k>> for m / 2^k with a
\* 24-bit significand m in 2^23..2^24 (the values here are below 2^24 and
\* their quotients above 2^-7, so k stays in 0..30 and no subnormals occur).

\* n / d rounded to the nearest integer, ties to even (IEEE 754 default).
RoundHalfEven(n, d) ==
  LET q == n \div d
      r == n % d
  IN  IF 2 * r > d \/ (2 * r = d /\ q % 2 = 1) THEN q + 1 ELSE q

\* The binary exponent of p / q: the least k with p * 2^k / q >= 2^23.
F32Scale(p, q) ==
  CHOOSE k \in 0..30 :
    /\ p * 2^k >= 8388608 * q
    /\ k = 0 \/ p * 2^(k - 1) < 8388608 * q

\* p as f32 / q as f32: the quotient of two small integers, rounded to f32.
F32Div(p, q) ==
  LET k == F32Scale(p, q) IN << RoundHalfEven(p * 2^k, q), k >>

\* x * a as f32 for an f32 x and a small integer a >= 1, rounded to f32.
F32MulInt(x, a) ==
  LET j == CHOOSE j \in 0..7 :
             /\ (x[1] * a) \div 2^j < 16777216
             /\ j = 0 \/ (x[1] * a) \div 2^(j - 1) >= 16777216
  IN  << RoundHalfEven(x[1] * a, 2^j), x[2] - j >>

\* f32::round of a positive f32: nearest integer, halves away from zero.
F32Round(x) ==
  IF x[2] <= 0 THEN x[1] * 2^(-x[2])
  ELSE (x[1] + 2^(x[2] - 1)) \div 2^(x[2])

\* Mutant: every boundary is a multiple of the rounded per-LED width.
StepValueCumulative(inner, led, a) ==
  IF led <= 0 THEN 0 ELSE a * RoundDiv(inner, led)

\* (step * a as f32).round() as i32, with step = inner as f32 / led as f32.
\* led = 0 makes step infinite or NaN; the loop 0..=0 then only runs a = 0,
\* where the product is NaN and NaN as i32 is 0.  A negative inner span
\* gives the mirrored value (division, product and round are odd functions).
StepValue(inner, led, a) ==
  IF led <= 0 \/ inner = 0 \/ a = 0 THEN 0
  ELSE IF inner > 0 THEN F32Round(F32MulInt(F32Div(inner, led), a))
  ELSE -F32Round(F32MulInt(F32Div(-inner, led), a))

\* The values of a for which `for a in 0..=led` pushes a rectangle (a > 0).
EdgeRange(led) == 1..Max(led, 0)

\* calculate_regions for monitor i of the list: per edge one rectangle per a
\* in 1..led, from the boundary at a - 1 (b) and the boundary at a (value).
MonitorRegions(c, m, i) ==
  LET inner_width  == m.width - c.left_indent[i] - c.right_indent[i]
      inner_height == m.height - c.up_indent[i] - c.down_indent[i]
      main_width   == m.width
      main_height  == m.height
      size         == c.size
      lv(a) == StepValue(inner_height, c.left_led[i], a) + c.down_indent[i]
      uv(a) == StepValue(inner_width, c.up_led[i], a) + c.left_indent[i]
      rv(a) == StepValue(inner_height, c.right_led[i], a) + c.up_indent[i]
      dv(a) == StepValue(inner_width, c.down_led[i], a) + c.right_indent[i]
      left  == [a \in EdgeRange(c.left_led[i]) |->
                  << 0, inner_height - lv(a), size, inner_height - lv(a - 1) >>]
      up    == [a \in EdgeRange(c.up_led[i]) |->
                  << uv(a - 1), 0, uv(a), size >>]
      right == [a \in EdgeRange(c.right_led[i]) |->
                  << main_width - size, rv(a - 1), main_width, rv(a) >>]
      down  == [a \in EdgeRange(c.down_led[i]) |->
                  << inner_width - dv(a), main_height - size,
                     inner_width - dv(a - 1), main_height >>]
  IN  left \o up \o right \o down

\* calculate_regions indexes every per-monitor vector with the monitor's
\* index: a monitor beyond the vectors' length is an index-out-of-bounds
\* panic.
RegionsPanic(c, ms) == Len(ms) > Len(c.left_led)

calculate_regions(c, ms) == [i \in 1..Len(ms) |-> MonitorRegions(c, ms[i], i)]

\* Mat::roi: the rectangle must lie inside the raster (OpenCV's assertion).
RoiOk(region, img) ==
  LET x == region[1]
      y == region[2]
      w == region[3] - region[1]
      h == region[4] - region[2]
  IN  /\ 0 <= x /\ 0 <= w /\ x + w <= img.cols
      /\ 0 <= y /\ 0 <= h /\ y + h <= img.rows

\* The colour of one region: the mean (B, G, R) of the ROI, rounded, then
\* averaged with the previous colour of the same index, or with black when
\* no previous colours are retained.
RegionColor(img, prev, i, brightness) ==
  LET b == img.px[1]
      g == img.px[2]
      r == img.px[3]
      rounded == round_rgb(r, g, b, brightness)
  IN  IF prev = << >> THEN average_rgb(<<0, 0, 0>>, rounded)
                      ELSE average_rgb(prev[i], rounded)

\* Mutant: a failing ROI ends the loop but the colours pushed so far are
\* returned.
get_average_colors_partial(regions, pair, prev, brightness) ==
  IF ~pair.ret THEN [kind |-> "ok", colors |-> << >>]
  ELSE LET bad == { i \in 1..Len(regions) : ~RoiOk(regions[i], pair.frame) }
           n   == IF bad = {} THEN Len(regions)
                  ELSE (CHOOSE i \in bad : \A k \in bad : i <= k) - 1
       IN  IF prev # << >> /\ Len(prev) < n
             THEN [kind |-> "panic", colors |-> << >>]
             ELSE [kind |-> "ok",
                   colors |-> [i \in 1..n |->
                                RegionColor(pair.frame, prev, i, brightness)]]

\* get_average_colors on the pair read() returned: "ok" with the colours
\* (empty when ret is false), "err" when a ROI fails, "panic" when
\* previous_avg_colors[i] is out of bounds.
get_average_colors(regions, pair, prev, brightness) ==
  IF ~pair.ret THEN [kind |-> "ok", colors |-> << >>]
  ELSE IF \E i \in 1..Len(regions) : ~RoiOk(regions[i], pair.frame)
    THEN [kind |-> "err", colors |-> << >>]
  ELSE IF prev # << >> /\ Len(prev) < Len(regions)
    THEN [kind |-> "panic", colors |-> << >>]
  ELSE [kind |-> "ok",
        colors |-> [i \in 1..Len(regions) |->
                     RegionColor(pair.frame, prev, i, brightness)]]

\* results.into_iter().flatten(): the concatenation of the per-source lists.
RECURSIVE Flatten(_)
Flatten(ss) == IF ss = << >> THEN << >> ELSE Head(ss) \o Flatten(Tail(ss))

\* send_data: a black placeholder first, then the colours of data.
send_data(data) == << <<0, 0, 0>> >> \o data

\* ------------------------------------------------------------- initial state

NoShared == [ret |-> FALSE, frame |-> EmptyMat]

Init ==
  /\ cfg \in Configs
  /\ mainpc = "monitors"
  /\ outcome = "running"
  /\ monitors = << >>
  /\ region_list = << >>
  /\ avg_colors = << >>
  /\ ncaps = 0
  /\ client = "none"
  /\ results = << >>
  /\ ticks = 0
  /\ shared = [i \in CamIdx |-> NoShared]
  /\ mutex = [i \in CamIdx |-> "free"]
  /\ running = [i \in CamIdx |-> FALSE]
  /\ handle = [i \in CamIdx |-> "none"]
  /\ ppc = [i \in CamIdx |-> "unspawned"]
  /\ pret = [i \in CamIdx |-> "false"]
  /\ pmat = [i \in CamIdx |-> EmptyMat]
  /\ delivered = [i \in CamIdx |-> 0]
  /\ camsize \in FrameSizes
  /\ lastPub = [i \in CamIdx |-> NoShared]
  /\ got = [i \in CamIdx |-> << >>]
  /\ readsAfter = [i \in CamIdx |-> 0]
  /\ stopped = [i \in CamIdx |-> FALSE]
  /\ dispatched = << >>
  /\ sendFailed = FALSE
  /\ openFailed = FALSE
  /\ afterFail = FALSE
  /\ rdflip = 0

\* ------------------------------------------------- the producer thread

\* A frame the device of source i delivers.
NewFrame(i, px) ==
  [id |-> delivered[i] + 1, px |-> px, cols |-> camsize[1], rows |-> camsize[2]]

\* Frames a device delivers before it only fails.
FrameBudget == IF mainpc \in {"client", "client_join"} THEN MaxSourceFrames ELSE MaxFrames

\* Mutant: the thread polls a flag of its own, not the one stop() clears.
StopRequestedNever(i) == FALSE

\* !thread_running.load(Ordering::Relaxed)
StopRequested(i) == ~running[i]

\* Mutant: the slot is accessed without waiting for the mutex.
TryLockUnguarded(i) == TRUE

\* Mutex::lock succeeds once nobody holds the mutex.
TryLock(i) == mutex[i] = "free"

\* Mutant: the guard outlives the loop body, so the next read runs locked.
GuardKept(m, i) == m

\* The MutexGuard `s` goes out of scope at the end of the loop body.
GuardDrop(m, i) == [m EXCEPT ![i] = "free"]

\* Mutant: the Err arm forgets to update the status.
PublishedRetStale(cur, r) == IF r = "err" THEN cur ELSE r = "true"

\* Mutant: every publish marks the slot as holding data.
PublishedRetAlways(cur, r) == TRUE

\* match ret: the value stored in s.ret (Ok(r) => r, Err(_) => false).
PublishedRet(cur, r) == r = "true"

\* Mutant: the loop is left after a failed read.
AfterPublishBreak(r) == IF r = "true" THEN "check1" ELSE "done"

\* Where the loop goes after the publish: back to the top, whatever ret was.
AfterPublish(r) == "check1"

\* Lines 79-81: the flag check at the top of the loop.
P_Check1(i) ==
  /\ ppc[i] = "check1"
  /\ ppc' = [ppc EXCEPT ![i] = IF StopRequested(i) THEN "done" ELSE "reading"]
  /\ UNCHANGED << shared, mutex, pret, pmat, delivered, lastPub, readsAfter >>
  /\ UNCHANGED << mainVars, running, handle, camsize, got, stopped, rdflip >>

\* Lines 84-85: the blocking cap.read returns Ok(true) with a new frame,
\* Ok(false) or Err; no mutex is taken around it.
P_Read(i) ==
  /\ ppc[i] = "reading"
  /\ \/ /\ delivered[i] < FrameBudget
        /\ \E px \in Pixels : pmat' = [pmat EXCEPT ![i] = NewFrame(i, px)]
        /\ delivered' = [delivered EXCEPT ![i] = @ + 1]
        /\ pret' = [pret EXCEPT ![i] = "true"]
     \/ /\ \E r \in {"false", "err"} : pret' = [pret EXCEPT ![i] = r]
        /\ pmat' = [pmat EXCEPT ![i] = EmptyMat]
        /\ UNCHANGED delivered
  /\ ppc' = [ppc EXCEPT ![i] = "check2"]
  /\ readsAfter' = [readsAfter EXCEPT ![i] = IF running[i] THEN @ ELSE Min(@ + 1, 2)]
  /\ UNCHANGED << shared, mutex, lastPub >>
  /\ UNCHANGED << mainVars, running, handle, camsize, got, stopped, rdflip >>

\* Lines 88-90: the flag check after the read; the break drops the locals.
P_Check2(i) ==
  /\ ppc[i] = "check2"
  /\ IF StopRequested(i)
       THEN /\ ppc' = [ppc EXCEPT ![i] = "done"]
            /\ pret' = [pret EXCEPT ![i] = "false"]
            /\ pmat' = [pmat EXCEPT ![i] = EmptyMat]
       ELSE /\ ppc' = [ppc EXCEPT ![i] = "lock"]
            /\ UNCHANGED << pret, pmat >>
  /\ UNCHANGED << shared, mutex, delivered, lastPub, readsAfter >>
  /\ UNCHANGED << mainVars, running, handle, camsize, got, stopped, rdflip >>

\* Lines 92-99/107: take the mutex and store s.ret.  (The mutex is never
\* poisoned: no thread panics while holding it, so Err(_) => break is dead.)
P_LockSetRet(i) ==
  /\ ppc[i] = "lock"
  /\ TryLock(i)
  /\ mutex' = [mutex EXCEPT ![i] = "producer"]
  /\ shared' = [shared EXCEPT ![i].ret = PublishedRet(@, pret[i])]
  /\ ppc' = [ppc EXCEPT ![i] = "crit"]
  /\ UNCHANGED << pret, pmat, delivered, lastPub, readsAfter >>
  /\ UNCHANGED << mainVars, running, handle, camsize, got, stopped, rdflip >>

\* Lines 100-110: replace the frame when the read succeeded, then drop the
\* guard at the end of the loop body: the publish is complete.
P_SetFrameUnlock(i) ==
  /\ ppc[i] = "crit"
  /\ shared' = [shared EXCEPT ![i].frame = IF pret[i] = "true" THEN pmat[i] ELSE @]
  /\ mutex' = GuardDrop(mutex, i)
  /\ lastPub' = [lastPub EXCEPT ![i] = shared'[i]]
  /\ ppc' = [ppc EXCEPT ![i] = AfterPublish(pret[i])]
  /\ pret' = [pret EXCEPT ![i] = "false"]
  /\ pmat' = [pmat EXCEPT ![i] = EmptyMat]
  /\ UNCHANGED << delivered, readsAfter >>
  /\ UNCHANGED << mainVars, running, handle, camsize, got, stopped, rdflip >>

Producer(i) ==
  \/ P_Check1(i) \/ P_Read(i) \/ P_Check2(i)
  \/ P_LockSetRet(i) \/ P_SetFrameUnlock(i)

\* ---------------------------------------------------------- the main thread

camVars == << shared, mutex, running, handle, ppc, pret, pmat, delivered,
              camsize, lastPub, got, readsAfter, stopped, rdflip >>

\* The next device the drop of `caps` stops: Vec drops its elements in order.
NextToStop == CHOOSE k \in 1..ncaps : ~stopped[k] /\ \A j \in 1..(k - 1) : stopped[j]

\* main ends (an Err through `?`, or a panic unwinding): its locals are
\* dropped in the reverse order of their declaration, so `client` (declared
\* last) goes before `caps`.
Teardown(cl, n) ==
  IF cl = "connected" THEN "drop_client"
  ELSE IF \E k \in 1..n : ~stopped[k] THEN "stop"
  ELSE "exited"

\* Mutant: the failed device is skipped and start-up carries on.
AfterOpenFailSkipped == "connect"

\* Where main goes when VideoCaptureAsync::new fails: `?` returns the error.
AfterOpenFail == Teardown(client, ncaps)

\* Mutant: the error of send_data is dropped and the loop goes on.
AfterSendFailSwallowed == "extract"

\* Where main goes when send_data fails: `?` returns the error.
AfterSendFail == Teardown(client, ncaps)

\* Mutant: stop() does not wait for the thread.
JoinedNoWait(i) == TRUE

\* handle.join() returns once the producer thread has exited.
Joined(i) == ppc[i] = "done"

\* Lines 64-70: the slot after the first read of new(): Ok(true) with the
\* first frame, or Ok(false) with the empty Mat.
FirstRead(i, r, px) ==
  [ret |-> r, frame |-> IF r THEN NewFrame(i, px) ELSE EmptyMat]

\* Line 342: get_monitors_info()?
M_GetMonitors ==
  /\ mainpc = "monitors"
  /\ \E ms \in MonitorLists : monitors' = ms
  /\ mainpc' = "calc"
  /\ UNCHANGED << cfg, outcome, region_list, avg_colors, ncaps, client, results,
                  ticks, dispatched, sendFailed, openFailed, afterFail >>
  /\ UNCHANGED camVars

\* Line 342: the display server cannot be reached.
M_GetMonitorsFail ==
  /\ mainpc = "monitors"
  /\ outcome' = "err"
  /\ mainpc' = Teardown(client, ncaps)
  /\ UNCHANGED << cfg, monitors, region_list, avg_colors, ncaps, client, results,
                  ticks, dispatched, sendFailed, openFailed, afterFail >>
  /\ UNCHANGED camVars

\* Lines 344-357: calculate_regions, then the empty per-monitor avg_colors.
M_Calc ==
  /\ mainpc = "calc"
  /\ IF RegionsPanic(cfg, monitors)
       THEN /\ outcome' = "panic"
            /\ mainpc' = Teardown(client, ncaps)
            /\ UNCHANGED << region_list, avg_colors >>
       ELSE /\ region_list' = calculate_regions(cfg, monitors)
            /\ avg_colors' = [i \in 1..Len(monitors) |-> << >>]
            /\ mainpc' = "open"
            /\ UNCHANGED outcome
  /\ UNCHANGED << cfg, monitors, ncaps, client, results, ticks, dispatched,
                  sendFailed, openFailed, afterFail >>
  /\ UNCHANGED camVars

\* Lines 58-118: VideoCaptureAsync::new succeeds; the first read fills the
\* slot and the producer thread is spawned.
M_OpenOk ==
  /\ mainpc = "open"
  /\ ncaps < NumCams
  /\ LET i == ncaps + 1 IN
     \E r \in BOOLEAN, px \in Pixels :
       /\ shared' = [shared EXCEPT ![i] = FirstRead(i, r, px)]
       /\ lastPub' = [lastPub EXCEPT ![i] = shared'[i]]
       /\ delivered' = [delivered EXCEPT ![i] = IF r THEN 1 ELSE 0]
       /\ running' = [running EXCEPT ![i] = TRUE]
       /\ handle' = [handle EXCEPT ![i] = "some"]
       /\ ppc' = [ppc EXCEPT ![i] = "check1"]
       /\ ncaps' = i
       /\ mainpc' = IF i = NumCams THEN "connect" ELSE "open"
  /\ UNCHANGED << mutex, pret, pmat, camsize, got, readsAfter, stopped, rdflip >>
  /\ UNCHANGED << cfg, outcome, monitors, region_list, avg_colors, client, results,
                  ticks, dispatched, sendFailed, openFailed, afterFail >>

\* Lines 59-65: the device cannot be opened (Err through `?`, or the panic
\* of line 61), or its first read is an Err.
M_OpenFail ==
  /\ mainpc = "open"
  /\ ncaps < NumCams
  /\ \E o \in {"err", "panic"} : outcome' = o
  /\ openFailed' = TRUE
  /\ mainpc' = AfterOpenFail
  /\ UNCHANGED << cfg, monitors, region_list, avg_colors, ncaps, client, results,
                  ticks, dispatched, sendFailed, afterFail >>
  /\ UNCHANGED camVars

\* Line 365: OpenRGB::connect().await?
M_Connect ==
  /\ mainpc = "connect"
  /\ \/ /\ client' = "connected"
        /\ mainpc' = "extract"
        /\ UNCHANGED outcome
     \/ /\ outcome' = "err"
        /\ mainpc' = Teardown(client, ncaps)
        /\ UNCHANGED client
  /\ UNCHANGED << cfg, monitors, region_list, avg_colors, ncaps, results,
                  ticks, dispatched, sendFailed, openFailed, afterFail >>
  /\ UNCHANGED camVars

\* Lines 368-378: get_average_colors for the next source of the tick, its
\* Err turned into an empty list by unwrap_or_default.  read() copies the
\* pair under the mutex (lines 120-123).
M_Extract ==
  /\ mainpc = "extract"
  /\ Len(results) < Len(region_list)
  /\ LET i == Len(results) + 1
         pair == shared[i]
         res == get_average_colors(region_list[i], pair, avg_colors[i],
                                   cfg.brightness)
     IN  /\ TryLock(i)
         /\ got' = [got EXCEPT ![i] = << pair >>]
         /\ IF res.kind = "panic"
              THEN /\ outcome' = "panic"
                   /\ mainpc' = Teardown(client, ncaps)
                   /\ UNCHANGED results
              ELSE /\ results' = Append(results, res.colors)
                   /\ UNCHANGED << outcome, mainpc >>
  /\ afterFail' = (afterFail \/ sendFailed)
  /\ UNCHANGED << cfg, monitors, region_list, avg_colors, ncaps, client,
                  ticks, dispatched, sendFailed, openFailed >>
  /\ UNCHANGED << shared, mutex, running, handle, ppc, pret, pmat, delivered,
                  camsize, lastPub, readsAfter, stopped, rdflip >>

\* Lines 381-396: store the results as the retained colours, flatten them,
\* send them; on success sleep and start the next tick.
M_Dispatch ==
  /\ mainpc = "extract"
  /\ Len(results) = Len(region_list)
  /\ avg_colors' = results
  /\ dispatched' = << send_data(Flatten(results)) >>
  /\ afterFail' = (afterFail \/ sendFailed)
  /\ results' = << >>
  /\ \/ /\ ticks < MaxTicks
        /\ ticks' = ticks + 1
        /\ mainpc' = "extract"
        /\ UNCHANGED << outcome, sendFailed >>
     \/ /\ sendFailed' = TRUE
        /\ outcome' = "err"
        /\ mainpc' = AfterSendFail
        /\ UNCHANGED ticks
  /\ UNCHANGED << cfg, monitors, region_list, ncaps, client, openFailed >>
  /\ UNCHANGED camVars

\* The drop of `client`: the sink connection is released.
M_DropClient ==
  /\ mainpc = "drop_client"
  /\ client' = "dropped"
  /\ mainpc' = Teardown("dropped", ncaps)
  /\ UNCHANGED << cfg, outcome, monitors, region_list, avg_colors, ncaps, results,
                  ticks, dispatched, sendFailed, openFailed, afterFail >>
  /\ UNCHANGED camVars

\* Lines 126, 135: Drop calls stop(), which clears the flag.
M_StopStore ==
  /\ mainpc = "stop"
  /\ running' = [running EXCEPT ![NextToStop] = FALSE]
  /\ mainpc' = "join"
  /\ UNCHANGED << shared, mutex, handle, ppc, pret, pmat, delivered, camsize,
                  lastPub, got, readsAfter, stopped, rdflip >>
  /\ UNCHANGED << cfg, outcome, monitors, region_list, avg_colors, ncaps, client,
                  results, ticks, dispatched, sendFailed, openFailed, afterFail >>

\* Lines 127-129: take the handle and join the thread; stop() returns.
M_StopJoin ==
  /\ mainpc = "join"
  /\ LET k == NextToStop IN
       /\ Joined(k)
       /\ handle' = [handle EXCEPT ![k] = "taken"]
       /\ stopped' = [stopped EXCEPT ![k] = TRUE]
       /\ mainpc' = IF \E j \in 1..ncaps : j # k /\ ~stopped[j] THEN "stop" ELSE "exited"
  /\ UNCHANGED << shared, mutex, running, ppc, pret, pmat, delivered, camsize,
                  lastPub, got, readsAfter, rdflip >>
  /\ UNCHANGED << cfg, outcome, monitors, region_list, avg_colors, ncaps, client,
                  results, ticks, dispatched, sendFailed, openFailed, afterFail >>

Main ==
  \/ M_GetMonitors \/ M_GetMonitorsFail \/ M_Calc \/ M_OpenOk \/ M_OpenFail
  \/ M_Connect \/ M_Extract \/ M_Dispatch \/ M_DropClient \/ M_StopStore
  \/ M_StopJoin

Next == Main \/ \E i \in CamIdx : Producer(i)

Spec == Init /\ [][Next]_vars

\* ------------------------------------------- one frame source on its own
\* A VideoCaptureAsync as new() returned it, used by an arbitrary caller:
\* read() and stop() in any order and number (stop takes &mut self, so the
\* caller's calls never overlap each other), against the producer thread.

SourceInit ==
  /\ cfg \in Configs
  /\ mainpc = "client"
  /\ outcome = "running"
  /\ monitors = << >>
  /\ region_list = << >>
  /\ avg_colors = << >>
  /\ ncaps = 1
  /\ client = "none"
  /\ results = << >>
  /\ ticks = 0
  /\ camsize \in FrameSizes
  /\ delivered \in { [i \in CamIdx |-> IF i = 1 THEN d ELSE 0] : d \in {0, 1} }
  /\ \E px \in Pixels :
       shared = [i \in CamIdx |->
                   IF i = 1 /\ delivered[1] = 1
                     THEN [ret |-> TRUE,
                           frame |-> [id |-> 1, px |-> px,
                                      cols |-> camsize[1], rows |-> camsize[2]]]
                     ELSE NoShared]
  /\ lastPub = shared
  /\ mutex = [i \in CamIdx |-> "free"]
  /\ running = [i \in CamIdx |-> i = 1]
  /\ handle = [i \in CamIdx |-> IF i = 1 THEN "some" ELSE "none"]
  /\ ppc = [i \in CamIdx |-> IF i = 1 THEN "check1" ELSE "unspawned"]
  /\ pret = [i \in CamIdx |-> "false"]
  /\ pmat = [i \in CamIdx |-> EmptyMat]
  /\ got = [i \in CamIdx |-> << >>]
  /\ readsAfter = [i \in CamIdx |-> 0]
  /\ stopped = [i \in CamIdx |-> FALSE]
  /\ dispatched = << >>
  /\ sendFailed = FALSE
  /\ openFailed = FALSE
  /\ afterFail = FALSE
  /\ rdflip = 0

\* Lines 120-123: read() locks the mutex and returns (s.ret, s.frame.clone()).
C_Read ==
  /\ mainpc = "client"
  /\ TryLock(1)
  /\ got' = [got EXCEPT ![1] = << shared[1] >>]
  /\ rdflip' = 1 - rdflip
  /\ UNCHANGED << shared, mutex, running, handle, ppc, pret, pmat, delivered,
                  camsize, lastPub, readsAfter, stopped >>
  /\ UNCHANGED mainVars

\* Line 126: stop() clears the flag; with no handle left it returns at once.
C_StopStore ==
  /\ mainpc = "client"
  /\ running' = [running EXCEPT ![1] = FALSE]
  /\ mainpc' = IF handle[1] = "some" THEN "client_join" ELSE "client"
  /\ UNCHANGED << shared, mutex, handle, ppc, pret, pmat, delivered, camsize,
                  lastPub, got, readsAfter, stopped, rdflip >>
  /\ UNCHANGED << cfg, outcome, monitors, region_list, avg_colors, ncaps, client,
                  results, ticks, dispatched, sendFailed, openFailed, afterFail >>

\* Lines 127-129: take the handle and join the thread; stop() returns.
C_StopJoin ==
  /\ mainpc = "client_join"
  /\ Joined(1)
  /\ handle' = [handle EXCEPT ![1] = "taken"]
  /\ stopped' = [stopped EXCEPT ![1] = TRUE]
  /\ mainpc' = "client"
  /\ UNCHANGED << shared, mutex, running, ppc, pret, pmat, delivered, camsize,
                  lastPub, got, readsAfter, rdflip >>
  /\ UNCHANGED << cfg, outcome, monitors, region_list, avg_colors, ncaps, client,
                  results, ticks, dispatched, sendFailed, openFailed, afterFail >>

SourceNext == C_Read \/ C_StopStore \/ C_StopJoin \/ \E i \in CamIdx : Producer(i)

SourceSpec == SourceInit /\ [][SourceNext]_vars

\* The producer thread is scheduled fairly and every device read returns;
\* a caller inside stop() keeps waiting for the join.
FairSourceSpec ==
  /\ SourceSpec
  /\ \A i \in CamIdx : WF_vars(Producer(i))
  /\ WF_vars(C_StopJoin)

\* ------------------------------------------------------------------ claims

\* C1: the producer never holds the slot mutex while it is in the blocking
\* device read: it holds the mutex only inside the publish step, so while a
\* device read is in progress read() finds the mutex free.
C1_LockOnlyForPublish ==
  \A i \in CamIdx :
    /\ mutex[i] = "producer" => ppc[i] = "crit"
    /\ ppc[i] = "reading" => TryLock(i)

\* C1 witness: the caller's read() returned the latest publish while the
\* producer was inside a device read of a later cycle.
C1_Witness ==
  /\ ppc[1] = "reading"
  /\ got[1] # << >>
  /\ got[1][1] = lastPub[1]
  /\ lastPub[1].frame.id >= 2

\* A step in which the caller's read() returns.
ReadReturns == rdflip' # rdflip

\* C2: every read() returns the pair of the most recently completed publish
\* (the initial pair if none has completed), and the frame of a read is the
\* frame of the read before it or a strictly newer one.
C2_ReadsLatestPublish ==
  [][ReadReturns =>
       /\ got'[1][1] = lastPub[1]
       /\ got[1] # << >> =>
            \/ got'[1][1].frame = got[1][1].frame
            \/ got'[1][1].frame.id > got[1][1].frame.id]_vars

\* C2 witness: a read() returned a frame published by the producer loop,
\* after an earlier read().
C2_Witness ==
  /\ got[1] # << >>
  /\ rdflip = 0
  /\ got[1][1].ret
  /\ got[1][1].frame.id >= 2

\* A step in which the producer completes the publish of a failed read.
FailedPublishDone(i) == ppc[i] = "crit" /\ ppc'[i] # "crit" /\ pret[i] # "true"

\* C3: the publish of a failed device read stores has_data = false, leaves
\* the previously published frame in the slot and returns to the top of the
\* loop; the thread ends only when the stop flag is set, and from the top
\* of the loop with the flag unset it starts the next device read.
C3_FailedReadPublishesFalse ==
  [][\A i \in CamIdx :
       /\ FailedPublishDone(i) =>
            /\ shared'[i].ret = FALSE
            /\ shared'[i].frame = lastPub[i].frame
            /\ ppc'[i] = "check1"
       /\ (ppc[i] # "done" /\ ppc'[i] = "done") => ~running[i]
       /\ (ppc[i] = "check1" /\ ppc'[i] # "check1" /\ running[i]) =>
            ppc'[i] = "reading"]_vars

\* C3 witness: a failed read was published over a delivered frame and the
\* producer, not stopped, is in the next device read.
C3_Witness ==
  /\ lastPub[1].ret = FALSE
  /\ lastPub[1].frame.id >= 1
  /\ shared[1] = lastPub[1]
  /\ running[1]
  /\ ppc[1] = "reading"

\* C4: once stop() has returned the producer thread has exited, and the
\* slot is never modified again.
C4_StopJoinsProducer ==
  /\ [](\A i \in CamIdx : stopped[i] => ppc[i] = "done" /\ mutex[i] = "free")
  /\ [][\A i \in CamIdx : stopped[i] => shared'[i] = shared[i]]_vars

\* C4 witness: stop() has returned for a source whose producer had
\* published, and the caller has read the slot afterwards.
C4_Witness ==
  /\ stopped[1]
  /\ lastPub[1].frame.id >= 2
  /\ got[1] # << >>
  /\ got[1][1] = lastPub[1]

\* C5: with a fairly scheduled producer whose device reads return, once the
\* stop flag of a spawned producer is cleared the thread terminates and
\* stop() returns; at most one device read returns after the flag was
\* cleared.
C5_StopTerminates ==
  /\ [](\A i \in CamIdx : readsAfter[i] <= 1)
  /\ \A i \in CamIdx :
       (handle[i] = "some" /\ ~running[i]) ~> (ppc[i] = "done" /\ stopped[i])

\* C5 witness: stop() has returned after one device read returned past the
\* clearing of the flag.
C5_Witness == stopped[1] /\ ppc[1] = "done" /\ readsAfter[1] = 1

\* The tick is at its dispatch: every source of region_list was extracted.
AtDispatch == mainpc = "extract" /\ Len(results) = Len(region_list)

\* The teardown of main: its locals are being dropped, or it has ended.
TornDown == mainpc \in {"drop_client", "stop", "join", "exited"}

\* C6: on a tick where the latest frame of a source is invalid the
\* extraction of that source is empty and the colours retained for it are
\* left unchanged by the tick.
C6_SkippedTickKeepsColors ==
  [][\A i \in 1..Len(avg_colors) :
       (AtDispatch /\ got[i] # << >> /\ ~got[i][1].ret) =>
          /\ results[i] = << >>
          /\ avg_colors'[i] = avg_colors[i]]_vars

\* The number of regions of all sources together.
TotalRegions == Len(Flatten(region_list))

\* C7: every dispatch carries one colour for every region of every source
\* (after the placeholder send_data puts first), so its length is the same
\* on every tick.
C7_DispatchIsFull ==
  dispatched # << >> => Len(dispatched[1]) = 1 + TotalRegions

\* C8: after a failed dispatch main ends with that error and attempts no
\* further extraction or dispatch.
C8_SendFailureEndsMain ==
  sendFailed => outcome = "err" /\ TornDown /\ ~afterFail

\* C8 witness: a dispatch failed after an accepted one and main has ended.
C8_Witness == sendFailed /\ ticks >= 1 /\ mainpc = "exited" /\ outcome = "err"

\* C9: when main ends after the sink was connected, every frame source is
\* stopped and joined before the sink connection is released.
C9_SourcesClosedBeforeSink ==
  client = "dropped" => \A k \in 1..ncaps : stopped[k] /\ ppc[k] = "done"

\* C10: once the open of a capture source has failed, main ends with the
\* failure; the sink is never connected and nothing is dispatched.
C10_OpenFailureBeforeSink ==
  openFailed =>
    /\ outcome \in {"err", "panic"}
    /\ TornDown
    /\ client = "none"
    /\ dispatched = << >>

\* C10 witness: the second device failed to open; the first, already
\* running, was stopped and main has ended without a sink connection.
C10_Witness ==
  /\ openFailed
  /\ ncaps = 1
  /\ stopped[1]
  /\ mainpc = "exited"
  /\ client = "none"

\* ------------------------------------------- region computation on its own
\* calculate_regions as main calls it, over configurations and monitor lists
\* beyond the hard-coded one: LED counts of 0, indents that leave no inner
\* span, more LEDs than pixels, and the shipped configuration on two
\* 1920x1080 monitors.

GeoSizes == { <<2, 2>>, <<10, 31>>, <<31, 10>> }
GeoLeds == {0, 1, 3, 14}
GeoIndents == {0, 1, 2}

GeoConfigs ==
  { [ left_led |-> <<ll>>, up_led |-> <<ul>>,
      right_led |-> <<rl>>, down_led |-> <<dl>>,
      left_indent |-> <<li>>, up_indent |-> <<ui>>,
      right_indent |-> <<ri>>, down_indent |-> <<di>>,
      size |-> 1, brightness |-> <<BrightnessNum, BrightnessDen>> ] :
    ll \in GeoLeds, ul \in GeoLeds, rl \in GeoLeds, dl \in GeoLeds,
    li \in GeoIndents, ui \in GeoIndents, ri \in GeoIndents, di \in GeoIndents }

\* The configuration main.rs hard-codes.
MainConfig ==
  [ left_led |-> <<36, 41>>, up_led |-> <<62, 76>>,
    right_led |-> <<36, 42>>, down_led |-> <<62, 81>>,
    left_indent |-> <<0, 0>>, up_indent |-> <<0, 40>>,
    right_indent |-> <<0, 0>>, down_indent |-> <<0, 0>>,
    size |-> 50, brightness |-> <<BrightnessNum, BrightnessDen>> ]

FullHD == [width |-> 1920, height |-> 1080]

\* The <<configuration, monitor list>> pairs region computation is run on.
GeoInputs ==
  { << c, << [width |-> d[1], height |-> d[2]] >> >> :
      c \in GeoConfigs, d \in GeoSizes }
  \cup { << MainConfig, << FullHD, FullHD >> >> }

GeoInit ==
  /\ \E in \in GeoInputs : cfg = in[1] /\ monitors = in[2]
  /\ mainpc = "calc"
  /\ outcome = "running"
  /\ region_list = << >>
  /\ avg_colors = << >>
  /\ ncaps = 0
  /\ client = "none"
  /\ results = << >>
  /\ ticks = 0
  /\ shared = [i \in CamIdx |-> NoShared]
  /\ mutex = [i \in CamIdx |-> "free"]
  /\ running = [i \in CamIdx |-> FALSE]
  /\ handle = [i \in CamIdx |-> "none"]
  /\ ppc = [i \in CamIdx |-> "unspawned"]
  /\ pret = [i \in CamIdx |-> "false"]
  /\ pmat = [i \in CamIdx |-> EmptyMat]
  /\ delivered = [i \in CamIdx |-> 0]
  /\ camsize \in { <<2, 2>> }
  /\ lastPub = [i \in CamIdx |-> NoShared]
  /\ got = [i \in CamIdx |-> << >>]
  /\ readsAfter = [i \in CamIdx |-> 0]
  /\ stopped = [i \in CamIdx |-> FALSE]
  /\ dispatched = << >>
  /\ sendFailed = FALSE
  /\ openFailed = FALSE
  /\ afterFail = FALSE
  /\ rdflip = 0

GeoSpec == GeoInit /\ [][M_Calc]_vars

\* The four edges in the order calculate_regions pushes their rectangles.
Edges == << "left", "up", "right", "down" >>

\* The LED count of edge e of monitor i.
LedCount(c, i, e) ==
  CASE e = "left"  -> c.left_led[i]
    [] e = "up"    -> c.up_led[i]
    [] e = "right" -> c.right_led[i]
    [] e = "down"  -> c.down_led[i]

\* The indent the boundaries of edge e are offset by (the loop's initial b).
WalkIndent(c, i, e) ==
  CASE e = "left"  -> c.down_indent[i]
    [] e = "up"    -> c.left_indent[i]
    [] e = "right" -> c.up_indent[i]
    [] e = "down"  -> c.right_indent[i]

\* The interval of the edge axis that lies between the two indents: the y
\* axis for the left and right edges, the x axis for the top and bottom.
AxisLow(c, i, e) ==
  IF e \in {"left", "right"} THEN c.up_indent[i] ELSE c.left_indent[i]

AxisHigh(c, m, i, e) ==
  IF e \in {"left", "right"} THEN m.height - c.down_indent[i]
  ELSE m.width - c.right_indent[i]

\* inner_height for the left and right edges, inner_width for the others.
InnerSpan(c, m, i, e) == AxisHigh(c, m, i, e) - AxisLow(c, i, e)

\* The rectangles of edge number k (in Edges) of monitor i in region_list.
EdgeRects(i, k) ==
  LET n(j) == Max(LedCount(cfg, i, Edges[j]), 0)
      RECURSIVE Before(_)
      Before(j) == IF j = 0 THEN 0 ELSE n(j) + Before(j - 1)
  IN  SubSeq(region_list[i], Before(k - 1) + 1, Before(k))

\* The positions of a rectangle's start and end along the axis of edge e.
AxisStart(e) == IF e \in {"left", "right"} THEN 2 ELSE 1
AxisEnd(e) == IF e \in {"left", "right"} THEN 4 ELSE 3

\* region_list holds the result of calculate_regions.
Calculated == mainpc # "calc" /\ outcome = "running"

\* Some edge of monitor i has LED count 0, or one of its inner spans is not
\* positive.
DegenerateMonitor(c, m, i) ==
  \/ \E k \in 1..4 : LedCount(c, i, Edges[k]) = 0
  \/ c.left_indent[i] + c.right_indent[i] >= m.width
  \/ c.up_indent[i] + c.down_indent[i] >= m.height

\* C11: a configuration with an LED count of 0 or a non-positive inner span
\* makes region computation fail before any device is opened or the sink is
\* connected, and no inverted rectangle is ever emitted.
C11_DegenerateConfigRejected ==
  /\ (mainpc # "calc" /\
      \E i \in 1..Len(monitors) : DegenerateMonitor(cfg, monitors[i], i))
       => /\ outcome \in {"err", "panic"}
          /\ region_list = << >>
          /\ ncaps = 0
          /\ client = "none"
  /\ \A i \in 1..Len(region_list) : \A j \in 1..Len(region_list[i]) :
       /\ region_list[i][j][3] >= region_list[i][j][1]
       /\ region_list[i][j][4] >= region_list[i][j][2]

\* Edge number k of monitor i has LEDs, non-negative indents on its axis and
\* a positive inner span.
EdgeValid(c, m, i, k) ==
  /\ LedCount(c, i, Edges[k]) > 0
  /\ AxisLow(c, i, Edges[k]) >= 0
  /\ AxisHigh(c, m, i, Edges[k]) <= (IF k \in {1, 3} THEN m.height ELSE m.width)
  /\ InnerSpan(c, m, i, Edges[k]) > 0

\* The rectangles rs cover lo..hi along the axis without gap or overlap,
\* walked from lo to hi or from hi to lo (s, e: the start and end fields).
Tiles(rs, lo, hi, s, e) ==
  LET n == Len(rs) IN
  \/ /\ rs[1][s] = lo
     /\ rs[n][e] = hi
     /\ \A j \in 1..(n - 1) : rs[j][e] = rs[j + 1][s]
  \/ /\ rs[1][e] = hi
     /\ rs[n][s] = lo
     /\ \A j \in 1..(n - 1) : rs[j][s] = rs[j + 1][e]

\* C12: the rectangles of every valid edge tile exactly the interval from
\* the near indent to the dimension minus the far indent.
C12_EdgeTilesInterval ==
  Calculated =>
    \A i \in 1..Len(region_list) : \A k \in 1..4 :
      EdgeValid(cfg, monitors[i], i, k) =>
        Tiles(EdgeRects(i, k), AxisLow(cfg, i, Edges[k]),
              AxisHigh(cfg, monitors[i], i, Edges[k]),
              AxisStart(Edges[k]), AxisEnd(Edges[k]))

\* Monitor i and its configuration satisfy the preconditions of a sampling
\* geometry: positive dimensions and LED counts, non-negative indents that
\* leave an inner span on both axes, and a strip thickness within both
\* dimensions.
MonitorValid(c, m, i) ==
  /\ m.width > 0 /\ m.height > 0
  /\ \A k \in 1..4 : EdgeValid(c, m, i, k)
  /\ c.size > 0 /\ c.size <= m.width /\ c.size <= m.height

\* C13: for a valid configuration every rectangle has x2 > x1 and y2 > y1
\* and lies inside the source frame.
C13_RectanglesInFrame ==
  Calculated =>
    \A i \in 1..Len(region_list) :
      MonitorValid(cfg, monitors[i], i) =>
        \A j \in 1..Len(region_list[i]) :
          LET r == region_list[i][j] IN
          /\ r[3] > r[1] /\ r[4] > r[2]
          /\ 0 <= r[1] /\ r[3] <= monitors[i].width
          /\ 0 <= r[2] /\ r[4] <= monitors[i].height

\* The boundary the loop of edge number k computed at a (its `value`; `b` at
\* a = 0), read back from the rectangle it was pushed into: the top and
\* right edges store it as it is, the left and bottom edges store the inner
\* span minus it.
Boundary(i, k, a) ==
  LET e    == Edges[k]
      r    == EdgeRects(i, k)[IF a = 0 THEN 1 ELSE a]
      span == InnerSpan(cfg, monitors[i], i, e)
  IN  IF e \in {"up", "right"}
        THEN r[IF a = 0 THEN AxisStart(e) ELSE AxisEnd(e)]
        ELSE span - r[IF a = 0 THEN AxisEnd(e) ELSE AxisStart(e)]

\* The boundaries of an edge with LEDs do not decrease, start at the indent
\* and end at the inner span plus the indent.
BoundariesSpan(i, k) ==
  LET n == LedCount(cfg, i, Edges[k])
      s == InnerSpan(cfg, monitors[i], i, Edges[k])
      d == WalkIndent(cfg, i, Edges[k])
  IN  /\ Boundary(i, k, 0) = d
      /\ Boundary(i, k, n) = s + d
      /\ s >= 0 => \A a \in 1..n : Boundary(i, k, a - 1) <= Boundary(i, k, a)

\* C14 as stated: every boundary equals round(s*a/n) + indent exactly.
C14_BoundaryIsExactRound ==
  Calculated =>
    \A i \in 1..Len(region_list) : \A k \in 1..4 :
      LET n == LedCount(cfg, i, Edges[k])
          s == InnerSpan(cfg, monitors[i], i, Edges[k])
          d == WalkIndent(cfg, i, Edges[k])
      IN  n > 0 =>
            /\ \A a \in 0..n : Boundary(i, k, a) = RoundDiv(s * a, n) + d
            /\ BoundariesSpan(i, k)

\* C14: every boundary is, independently of the others, an integer nearest
\* to s*a/n plus the indent (the single-precision product may fall on either
\* side of an exact half); the boundaries start at the indent, end at
\* s + indent and do not decrease when s >= 0.
C14_BoundaryIsNearest ==
  Calculated =>
    \A i \in 1..Len(region_list) : \A k \in 1..4 :
      LET n == LedCount(cfg, i, Edges[k])
          s == InnerSpan(cfg, monitors[i], i, Edges[k])
          d == WalkIndent(cfg, i, Edges[k])
      IN  n > 0 =>
            /\ \A a \in 0..n :
                 LET diff == 2 * n * (Boundary(i, k, a) - d) - 2 * s * a
                 IN  diff <= n /\ -diff <= n
            /\ BoundariesSpan(i, k)

\* A 31x10 monitor without indents, 14 LEDs on the top edge and 3 on the
\* right: the top boundary at a = 7 (31*7/14 = 15.5) is 15, and the right
\* boundaries are 3, 7, 10.
C14_Witness ==
  /\ Calculated
  /\ monitors = << [width |-> 31, height |-> 10] >>
  /\ cfg.up_led = << 14 >> /\ cfg.right_led = << 3 >>
  /\ cfg.left_indent = << 0 >> /\ cfg.right_indent = << 0 >>
  /\ cfg.up_indent = << 0 >> /\ cfg.down_indent = << 0 >>
  /\ Boundary(1, 2, 7) = 15
  /\ Boundary(1, 3, 1) = 3 /\ Boundary(1, 3, 2) = 7 /\ Boundary(1, 3, 3) = 10

\* --------------------------------------- the tick loop on a constant picture
\* main in its tick loop, both devices opened and the sink connected, while
\* every producer is blocked in cap.read(): the slots hold the same valid
\* frame on every tick.  Brightness and the frame's colour vary; one input
\* is a 1920x1080 monitor with 4 LEDs per edge, thickness 20, brightness
\* 1.0 and a pure red frame.

Brightnesses == { <<1, 2>>, <<1, 1>>, <<2, 1>> }

\* Mean (B, G, R) of the constant frame.
SmoothPixels ==
  { <<b, g, r>> : b \in {0, 37}, g \in {0, 255}, r \in {0, 1, 2, 100, 200, 255} }

RedConfig ==
  [ left_led |-> <<4>>, up_led |-> <<4>>, right_led |-> <<4>>, down_led |-> <<4>>,
    left_indent |-> <<0>>, up_indent |-> <<0>>,
    right_indent |-> <<0>>, down_indent |-> <<0>>,
    size |-> 20, brightness |-> <<1, 1>> ]

SmoothInputs ==
  { [cfg |-> [c EXCEPT !.brightness = br], monitors |-> ms,
     camsize |-> <<Mon.width, Mon.height>>, px |-> px] :
      c \in Configs, br \in Brightnesses, ms \in { <<Mon>>, <<Mon, Mon>> },
      px \in SmoothPixels }
  \cup { [cfg |-> RedConfig, monitors |-> <<FullHD>>,
          camsize |-> <<FullHD.width, FullHD.height>>, px |-> <<0, 0, 255>>] }

SmoothInit ==
  /\ \E in \in SmoothInputs :
       /\ cfg = in.cfg
       /\ monitors = in.monitors
       /\ camsize = in.camsize
       /\ shared = [i \in CamIdx |->
                      [ret |-> TRUE,
                       frame |-> [id |-> 1, px |-> in.px,
                                  cols |-> in.camsize[1], rows |-> in.camsize[2]]]]
  /\ mainpc = "extract"
  /\ outcome = "running"
  /\ region_list = calculate_regions(cfg, monitors)
  /\ avg_colors = [i \in 1..Len(monitors) |-> << >>]
  /\ ncaps = NumCams
  /\ client = "connected"
  /\ results = << >>
  /\ ticks = 0
  /\ mutex = [i \in CamIdx |-> "free"]
  /\ running = [i \in CamIdx |-> TRUE]
  /\ handle = [i \in CamIdx |-> "some"]
  /\ ppc = [i \in CamIdx |-> "reading"]
  /\ pret = [i \in CamIdx |-> "false"]
  /\ pmat = [i \in CamIdx |-> EmptyMat]
  /\ delivered = [i \in CamIdx |-> 1]
  /\ lastPub = shared
  /\ got = [i \in CamIdx |-> << >>]
  /\ readsAfter = [i \in CamIdx |-> 0]
  /\ stopped = [i \in CamIdx |-> FALSE]
  /\ dispatched = << >>
  /\ sendFailed = FALSE
  /\ openFailed = FALSE
  /\ afterFail = FALSE
  /\ rdflip = 0

SmoothNext == M_Extract \/ M_Dispatch

SmoothSpec == SmoothInit /\ [][SmoothNext]_vars

\* The rounded brightness-scaled mean (R, G, B) of the frame in slot i.
NewColor(i) ==
  << RoundChannel(shared[i].frame.px[3], cfg.brightness),
     RoundChannel(shared[i].frame.px[2], cfg.brightness),
     RoundChannel(shared[i].frame.px[1], cfg.brightness) >>

\* Channel ch of the colour retained for region j of source i (black when
\* no colours are retained).
PrevChannel(i, j, ch) ==
  IF avg_colors[i] = << >> THEN 0 ELSE avg_colors[i][j][ch]

\* C15: the colour get_average_colors returns for region j is, per channel,
\* floor((prev + new) / 2), with new the rounded brightness-scaled mean and
\* prev the colour retained for the same index, or black when none is; the
\* sum fits the u16 it is computed in and the result is in 0..255.
C15_BlendIsHalfSum ==
  [][ (Len(results') = Len(results) + 1 /\ results'[Len(results')] # << >>)
        => LET i   == Len(results')
               out == results'[i]
           IN  /\ Len(out) = Len(region_list[i])
               /\ \A j \in 1..Len(out) : \A ch \in 1..3 :
                    LET sum == PrevChannel(i, j, ch) + NewColor(i)[ch]
                    IN  /\ sum <= 65535
                        /\ out[j][ch] = sum \div 2
                        /\ out[j][ch] \in 0..255 ]_vars

\* Second tick on a frame whose rounded colour is (200,0,0): the retained
\* colour is (100,0,0) and the colour returned is (150,0,0).
C15_Witness ==
  /\ mainpc = "extract"
  /\ Len(results) >= 1
  /\ NewColor(1) = <<200, 0, 0>>
  /\ avg_colors[1] # << >>
  /\ avg_colors[1][1] = <<100, 0, 0>>
  /\ results[1][1] = <<150, 0, 0>>

\* n / d rounded up.
CeilDiv(n, d) == (n + d - 1) \div d

\* C16 as stated: on a constant picture the output equals the constant
\* colour from the second tick on.
C16_ConstantSignalConverges ==
  (AtDispatch /\ ticks >= 1) =>
    \A i \in 1..Len(results) : \A j \in 1..Len(results[i]) :
      results[i][j] = NewColor(i)

\* C16: on a constant picture of rounded colour c the output of tick k is,
\* per channel, c - ceil(c / 2^k): it starts at floor(c / 2) and the
\* distance to c is halved, rounding up, on every tick.
C16_ConstantSignalHalvesGap ==
  AtDispatch =>
    \A i \in 1..Len(results) : \A j \in 1..Len(results[i]) : \A ch \in 1..3 :
      results[i][j][ch] =
        NewColor(i)[ch] - CeilDiv(NewColor(i)[ch], 2^(ticks + 1))

\* Third tick on a constant red of 100: the outputs were 50 and 75, and the
\* third is 87.
C16_Witness ==
  /\ AtDispatch
  /\ ticks = 2
  /\ NewColor(1)[1] = 100
  /\ avg_colors[1][1][1] = 75
  /\ results[1][1][1] = 87

\* C17: every emitted colour is the rounded brightness-scaled mean without
\* any blend, on the first tick too; the 1920x1080 monitor with 4 LEDs per
\* edge, brightness 1.0 and a pure red frame yields 16 times (255,0,0).
C17_UnsmoothedOutput ==
  AtDispatch =>
    /\ \A i \in 1..Len(results) :
         /\ Len(results[i]) = Len(region_list[i])
         /\ \A j \in 1..Len(results[i]) : results[i][j] = NewColor(i)
    /\ cfg = RedConfig => results = << [j \in 1..16 |-> <<255, 0, 0>>] >>

\* The state of frame source i: Opening until new() has spawned the thread,
\* Stopped once the thread has ended, else Running or Stalled by the status
\* of the last completed publish.
SourceState(i) ==
  IF ppc[i] = "unspawned" THEN "Opening"
  ELSE IF ppc[i] = "done" THEN "Stopped"
  ELSE IF lastPub[i].ret THEN "Running" ELSE "Stalled"

\* A step in which the producer completes a publish.
PublishDone(i) == ppc[i] = "crit" /\ ppc'[i] # "crit"

FramePending(i) == ppc[i] \in {"check2", "lock"} /\ pret[i] = "true"

\* C19: whenever the slot can be read, has_data = true comes with the frame
\* of the last published device read, which succeeded: a delivered frame,
\* never the empty initial one, and until stop is requested the newest the
\* device delivered (or the one before it while the newest awaits its
\* publish); a publish stores has_data = true exactly for a successful read,
\* and only such a publish replaces the frame.
C19_HasDataMeansFreshFrame ==
  /\ [](\A i \in CamIdx :
          (mutex[i] = "free" /\ shared[i].ret) =>
             /\ shared[i].frame # EmptyMat
             /\ shared[i] = lastPub[i]
             /\ shared[i].frame.id >= 1
             /\ shared[i].frame.id <= delivered[i]
             /\ running[i] =>
                  shared[i].frame.id =
                    (IF FramePending(i) THEN delivered[i] - 1 ELSE delivered[i]))
  /\ [][\A i \in CamIdx :
          /\ PublishDone(i) => (shared'[i].ret <=> pret[i] = "true")
          /\ shared'[i].frame # shared[i].frame =>
               /\ PublishDone(i)
               /\ pret[i] = "true"
               /\ shared'[i].frame = pmat[i]]_vars

\* The caller read the slot of a source whose first read had failed (no
\* data, empty frame); the first successful read then filled it.
C19_Witness ==
  /\ got[1] = << NoShared >>
  /\ mutex[1] = "free"
  /\ shared[1].ret
  /\ shared[1].frame.id = 1
  /\ shared[1].frame # EmptyMat

\* C20: the colours retained for every source are none or one per region of
\* the source, so no extraction indexes previous_avg_colors out of bounds.
C20_RetainedColorsFitRegions ==
  mainpc = "extract" =>
    /\ Len(avg_colors) = Len(region_list)
    /\ \A i \in 1..Len(avg_colors) :
         \/ avg_colors[i] = << >>
         \/ Len(avg_colors[i]) = Len(region_list[i])
    /\ Len(results) < Len(region_list) =>
         get_average_colors(region_list[Len(results) + 1],
                            shared[Len(results) + 1],
                            avg_colors[Len(results) + 1],
                            cfg.brightness).kind # "panic"

\* The start of a tick after a tick in which source 1 was extracted in full
\* and source 2 yielded nothing.
C20_Witness ==
  /\ mainpc = "extract"
  /\ results = << >>
  /\ ticks >= 1
  /\ Len(avg_colors) = 2
  /\ avg_colors[1] # << >> /\ Len(avg_colors[1]) = Len(region_list[1])
  /\ avg_colors[2] = << >>

====
